---- MODULE Spec2Model ----
(***************************************************************************)
(* A model of flask_micropub.py: the IndieAuth / Micropub client of        *)
(* MicropubClient.  The state is the per-visitor session slot              *)
(* '_micropub_csrf_token', the tokens uuid4 has handed out, and the call   *)
(* the extension is serving; the actions are the public entry points       *)
(* (authenticate, authorize) and the two callback resolvers                *)
(* (_handle_authenticate_response, _handle_authorize_response).            *)
(*                                                                         *)
(* Python values.  A str is a sequence of text fragments.  Strings the     *)
(* code takes apart (the wrapped state, the identity URL) are sequences of *)
(* single characters; literals it only passes along (error messages,       *)
(* rendered objects) are kept as one fragment.  None is a value of its own *)
(* that equals no string.                                                  *)
(***************************************************************************)
EXTENDS Naturals, Sequences, FiniteSets, TLC

VARIABLES session, uuid_count, flows, accepted, last, codec, discovery

vars == <<session, uuid_count, flows, accepted, last, codec, discovery>>

(***************************************************************************)
(* Bounds of the model.                                                    *)
(***************************************************************************)
\* How many flows are initiated in one run (calls of uuid.uuid4).
MaxFlows == 2
\* Longest token and longest application state the codec specification
\* draws.
MaxTokenLen == 2
MaxStateLen == 3
\* Most link elements in a document the discovery specification draws.
MaxLinks == 2

(***************************************************************************)
(* Python values and the builtins the code uses.                           *)
(***************************************************************************)
None == <<"None">>

\* Truth value of an optional string: `if x`, `not x`.
Truthy(x) == x # None /\ x # <<>>

\* `a or b`.
Or(a, b) == IF Truthy(a) THEN a ELSE b

\* `c in s` for a one-character c.
Contains(s, c) == \E i \in 1..Len(s) : s[i] = c

\* s.startswith(prefix)
StartsWith(s, prefix) ==
    /\ Len(s) >= Len(prefix)
    /\ SubSeq(s, 1, Len(prefix)) = prefix

\* A split at the last c instead of the first (rsplit).
SplitLast(s, c) ==
    LET i == CHOOSE k \in 1..Len(s) :
                 s[k] = c /\ \A j \in (k + 1)..Len(s) : s[j] # c
    IN  <<SubSeq(s, 1, i - 1), SubSeq(s, i + 1, Len(s))>>

\* s.split(c, 1) for an s that contains c: the parts before and after the
\* first c.
SplitFirst(s, c) ==
    LET i == CHOOSE k \in 1..Len(s) :
                 s[k] = c /\ \A j \in 1..(k - 1) : s[j] # c
    IN  <<SubSeq(s, 1, i - 1), SubSeq(s, i + 1, Len(s))>>

HTTP == <<"h", "t", "t", "p", ":", "/", "/">>
HTTPS == <<"h", "t", "t", "p", "s", ":", "/", "/">>

DEFAULT_AUTH_URL == HTTPS \o <<"indieauth.com/auth">>

(***************************************************************************)
(* The CSRF state codec, inlined in the source.                            *)
(***************************************************************************)
\* '{}|{}'.format(csrf_token, state or '')
wrap_state(csrf_token, state) == csrf_token \o <<"|">> \o Or(state, <<>>)

\* An unwrapping that takes a state without '|' for the token itself.
unwrap_state_whole(wrapped_state) ==
    IF Truthy(wrapped_state) /\ Contains(wrapped_state, "|")
    THEN SplitFirst(wrapped_state, "|")
    ELSE <<wrapped_state, None>>

\* The unwrapping both resolvers start with: <<csrf_token, state>>.
unwrap_state(wrapped_state) ==
    IF Truthy(wrapped_state) /\ Contains(wrapped_state, "|")
    THEN SplitFirst(wrapped_state, "|")
    ELSE <<None, None>>

\* A parse that keeps blank values (keep_blank_values=True).
parse_qs_keep_blank(text) ==
    LET keys == {text[i][1] : i \in 1..Len(text)}
    IN  [k \in keys |->
            LET HasKey(p) == p[1] = k
                sel == SelectSeq(text, HasKey)
            IN  [i \in 1..Len(sel) |-> sel[i][2]]]

(***************************************************************************)
(* urllib's parse_qs.  A form-encoded text is modelled as the sequence of  *)
(* its key=value pairs, <<key, value>>; parse_qs keeps the pairs whose     *)
(* value is not blank (keep_blank_values is off) and gives, per key, the   *)
(* list of its values in order.                                            *)
(***************************************************************************)
parse_qs(text) ==
    LET NotBlank(p) == p[2] # <<>>
        kept == SelectSeq(text, NotBlank)
        keys == {kept[i][1] : i \in 1..Len(kept)}
    IN  [k \in keys |->
            LET HasKey(p) == p[1] = k
                sel == SelectSeq(kept, HasKey)
            IN  [i \in 1..Len(sel) |-> sel[i][2]]]

\* dict.get(key): the value, or None.
DictGet(d, key) == IF key \in DOMAIN d THEN d[key] ELSE None

(***************************************************************************)
(* The outside world: what a discovery GET and a provider POST can answer. *)
(***************************************************************************)
Rels == {"authorization_endpoint", "token_endpoint", "micropub"}

\* A link element without an href attribute.
NoAttr == <<"NoAttr">>

HeaderAuth == HTTPS \o <<"hdr/auth">>
HeaderToken == HTTPS \o <<"hdr/token">>
HeaderMicropub == HTTPS \o <<"hdr/micropub">>
HtmlAuth == HTTPS \o <<"html/auth">>
HtmlToken == HTTPS \o <<"html/token">>
HtmlMicropub == HTTPS \o <<"html/micropub">>

AllHeaders ==
    [authorization_endpoint |-> HeaderAuth, token_endpoint |-> HeaderToken,
     micropub |-> HeaderMicropub]

NoHeaders == [r \in {} |-> None]

Link(rel, href) == [rel |-> rel, href |-> href]

AllLinks ==
    << Link("authorization_endpoint", HtmlAuth),
       Link("token_endpoint", HtmlToken),
       Link("micropub", HtmlMicropub) >>

\* The documents the identity URL serves in the model: the status, the
\* Link headers by relation (requests' response.links) and the link
\* elements of the HTML body in document order.
Pages ==
    { [status |-> 404, links |-> AllHeaders, html |-> AllLinks],
      [status |-> 200, links |-> NoHeaders, html |-> << >>],
      [status |-> 200, links |-> AllHeaders, html |-> << >>],
      [status |-> 200, links |-> NoHeaders, html |-> AllLinks],
      [status |-> 200, links |-> AllHeaders, html |-> AllLinks],
      [status |-> 200,
       links |-> [token_endpoint |-> HeaderToken],
       html |-> << Link("micropub", HtmlMicropub),
                   Link("micropub", HtmlToken) >>],
      [status |-> 200,
       links |-> [authorization_endpoint |-> HeaderAuth,
                  micropub |-> HeaderMicropub],
       html |-> << >>],
      [status |-> 200, links |-> NoHeaders,
       html |-> << Link("authorization_endpoint", HtmlAuth),
                   Link("token_endpoint", HtmlToken) >>],
      [status |-> 200,
       links |-> [authorization_endpoint |-> HeaderAuth,
                  micropub |-> HeaderMicropub],
       html |-> << Link("token_endpoint", NoAttr),
                   Link("token_endpoint", HtmlToken) >>],
      [status |-> 200,
       links |-> [token_endpoint |-> HeaderToken,
                  micropub |-> HeaderMicropub],
       html |-> << Link("authorization_endpoint", NoAttr) >>] }

(***************************************************************************)
(* MicropubClient._discover_endpoints, on the response of the GET.         *)
(***************************************************************************)
\* me_response.links.get(rel, {}).get('url')
HeaderLink(page, rel) == DictGet(page.links, rel)

\* soup.find('link', {'rel': rel}): the position of the first link element
\* with that rel, 0 when there is none.
SoupFind(html, rel) ==
    IF \E i \in 1..Len(html) : html[i].rel = rel
    THEN CHOOSE i \in 1..Len(html) :
             html[i].rel = rel /\ \A j \in 1..(i - 1) : html[j].rel # rel
    ELSE 0

\* link and link['href']: None without an element, NoAttr (a KeyError)
\* when the element has no href.
HtmlLink(page, rel) ==
    LET i == SoupFind(page.html, rel)
    IN  IF i = 0 THEN None ELSE page.html[i].href

\* A lookup that lets the HTML element override the header.
EndpointHtmlFirst(page, rel) ==
    IF SoupFind(page.html, rel) # 0
    THEN HtmlLink(page, rel)
    ELSE HeaderLink(page, rel)

\* One relation: the header's URL, else the HTML element's.
Endpoint(page, rel) ==
    IF Truthy(HeaderLink(page, rel))
    THEN HeaderLink(page, rel)
    ELSE HtmlLink(page, rel)

\* [raised, auth, token, micropub]: the three are None after a non-200
\* response; raised names the exception of the first lookup that fails.
_discover_endpoints(page) ==
    IF page.status # 200
    THEN [raised |-> None, auth |-> None, token |-> None, micropub |-> None]
    ELSE LET a == Endpoint(page, "authorization_endpoint")
             t == Endpoint(page, "token_endpoint")
             m == Endpoint(page, "micropub")
         IN  IF NoAttr \in {a, t, m}
             THEN [raised |-> <<"KeyError">>, auth |-> None, token |-> None,
                   micropub |-> None]
             ELSE [raised |-> None, auth |-> a, token |-> t, micropub |-> m]

(***************************************************************************)
(* The transport, requests.get and requests.post.  A call on a URL without *)
(* an http(s) scheme raises MissingSchema before anything is sent.  The    *)
(* responses the outside world gives to the call's requests are drawn by   *)
(* the action, in order; "pending" marks a request whose response has not  *)
(* been drawn yet and never shows in a state.                              *)
(***************************************************************************)
HasScheme(url) == url # None /\ (StartsWith(url, HTTP) \/ StartsWith(url, HTTPS))

Get(url) == [method |-> "GET", url |-> url]

\* A second fetch in the place of the POST.
GetAgain(url, data) == [method |-> "GET", url |-> url]

Post(url, data) == [method |-> "POST", url |-> url, data |-> data]

\* str(response): '<Response [400]>'
ResponseRepr(response) == <<"<Response [", ToString(response.status), "]>">>

\* str(dict) of a parse_qs result, rendered from the pairs it kept.
RECURSIVE PairsRepr(_)
PairsRepr(pairs) ==
    IF pairs = << >> THEN << >>
    ELSE <<Head(pairs)[1], ": ">> \o Head(pairs)[2] \o <<", ">>
         \o PairsRepr(Tail(pairs))

DictRepr(text) ==
    LET NotBlank(p) == p[2] # <<>>
    IN  <<"{">> \o PairsRepr(SelectSeq(text, NotBlank)) \o <<"}">>

(***************************************************************************)
(* class AuthResponse                                                      *)
(***************************************************************************)
AuthResponse(me, micropub_endpoint, access_token, state, scope, error) ==
    [me |-> me, micropub_endpoint |-> micropub_endpoint,
     access_token |-> access_token, next_url |-> state, state |-> state,
     scope |-> scope, error |-> error]

(***************************************************************************)
(* How a call of the extension ends: it returns a value or raises.  Beside *)
(* the value, the record keeps the trace of the call: the requests it      *)
(* sent, the outcome of its CSRF check, and its reads of and writes to the *)
(* session slot '_micropub_csrf_token'.                                    *)
(***************************************************************************)
\* A return that also clears the session slot once the token was accepted.
ReturnedConsuming(resp, requests, csrf, reads) ==
    [outcome |-> "returned", resp |-> resp, requests |-> requests,
     csrf |-> csrf, reads |-> reads,
     written |-> IF csrf = "passed" THEN <<None>> ELSE << >>]

\* A return that rotates the session's token once it was accepted.
ReturnedRotating(resp, requests, csrf, reads) ==
    [outcome |-> "returned", resp |-> resp, requests |-> requests,
     csrf |-> csrf, reads |-> reads,
     written |-> IF csrf = "passed" THEN << <<"rotated">> >> ELSE << >>]

Returned(resp, requests, csrf, reads) ==
    [outcome |-> "returned", resp |-> resp, requests |-> requests,
     csrf |-> csrf, reads |-> reads, written |-> << >>]

Raised(exception, requests, csrf, reads) ==
    [outcome |-> "raised", exception |-> exception, requests |-> requests,
     csrf |-> csrf, reads |-> reads, written |-> << >>]

Pending == [outcome |-> "pending"]

\* The application's client id, and flask.url_for of each callback.
ClientId == <<"app">>

RedirectUri(op) ==
    IF op = "authenticate"
    THEN HTTPS \o <<"app/authenticated">>
    ELSE HTTPS \o <<"app/authorized">>

\* A check that lets every token pass while the session holds none.
CsrfMatchesUnset(csrf_token, stored) == stored = None \/ csrf_token = stored

\* A check that is skipped.
CsrfMatchesAny(csrf_token, stored) == TRUE

\* csrf_token != flask.session.get('_micropub_csrf_token'), negated.
CsrfMatches(csrf_token, stored) == csrf_token = stored

\* A test that asks for both endpoints to be missing.
NoMicropubAtAll(token_url, micropub_url) ==
    ~Truthy(token_url) /\ ~Truthy(micropub_url)

\* not token_url or not micropub_url
NoMicropub(token_url, micropub_url) ==
    ~Truthy(token_url) \/ ~Truthy(micropub_url)

\* values[-1]
Last(values) == values[Len(values)]

\* values[0] of a parse_qs value list.
First(values) == values[1]

\* A choice that keeps to the default whatever was discovered.
AlwaysDefault(auth_url) == DEFAULT_AUTH_URL

\* if not auth_url: auth_url = DEFAULT_AUTH_URL
AuthUrlOrDefault(auth_url) == Or(auth_url, DEFAULT_AUTH_URL)

\* An error field that is rendered empty when the body has none.
ErrorFieldEmpty(vals) == IF vals # None THEN First(vals) ELSE << >>

\* error_vals[0] if error_vals else 'Unknown Error'
ErrorField(vals) == IF vals # None THEN First(vals) ELSE <<"Unknown Error">>

(***************************************************************************)
(* MicropubClient._handle_authenticate_response                            *)
(*   args      flask.request.args: code, state, me (None when missing)     *)
(*   stored    flask.session.get('_micropub_csrf_token')                   *)
(*   responses what the GET and the POST are answered, in order            *)
(***************************************************************************)
_handle_authenticate_response(args, stored, responses) ==
    LET code == args.code
        wrapped_state == args.state
        me == args.me
        redirect_uri == RedirectUri("authenticate")
        csrf_token == unwrap_state(wrapped_state)[1]
        state == unwrap_state(wrapped_state)[2]
    IN
    IF ~Truthy(csrf_token)
    THEN Returned(AuthResponse(None, None, None, state, None,
                               <<"no CSRF token in response">>),
                  << >>, "missing", 0)
    ELSE IF ~CsrfMatches(csrf_token, stored)
    THEN Returned(AuthResponse(None, None, None, state, None,
                               <<"mismatched CSRF token">>),
                  << >>, "mismatched", 1)
    ELSE IF ~HasScheme(me)
    THEN Raised(<<"MissingSchema">>, << >>, "passed", 1)
    ELSE IF Len(responses) < 1 THEN Pending
    ELSE
    LET found == _discover_endpoints(responses[1])
        auth_url == AuthUrlOrDefault(found.auth)
        auth_data == [code |-> code, client_id |-> ClientId,
                      redirect_uri |-> redirect_uri, state |-> wrapped_state]
    IN
    IF found.raised # None
    THEN Raised(found.raised, <<Get(me)>>, "passed", 1)
    ELSE IF ~HasScheme(auth_url)
    THEN Raised(<<"MissingSchema">>, <<Get(me)>>, "passed", 1)
    ELSE IF Len(responses) < 2 THEN Pending
    ELSE
    LET response == responses[2]
        sent == <<Get(me), Post(auth_url, auth_data)>>
        rdata == parse_qs(response.text)
        error_vals == DictGet(rdata, "error")
        error_descs == DictGet(rdata, "error_description")
    IN
    IF response.status # 200
    THEN Returned(
             AuthResponse(None, None, None, state, None,
                 <<"authorization failed. ">> \o ErrorField(error_vals)
                 \o <<": ">> \o ErrorField(error_descs)),
             sent, "passed", 1)
    ELSE IF "me" \notin DOMAIN rdata
    THEN Returned(AuthResponse(None, None, None, state, None,
                               <<"missing \"me\" in response">>),
                  sent, "passed", 1)
    ELSE Returned(AuthResponse(First(rdata["me"]), None, None, state, None,
                               None),
                  sent, "passed", 1)

(***************************************************************************)
(* MicropubClient._handle_authorize_response, with the same parameters.    *)
(***************************************************************************)
_handle_authorize_response(args, stored, responses) ==
    LET code == args.code
        wrapped_state == args.state
        me == args.me
        redirect_uri == RedirectUri("authorize")
        csrf_token == unwrap_state(wrapped_state)[1]
        state == unwrap_state(wrapped_state)[2]
    IN
    IF ~Truthy(csrf_token)
    THEN Returned(AuthResponse(None, None, None, state, None,
                               <<"no CSRF token in response">>),
                  << >>, "missing", 0)
    ELSE IF ~CsrfMatches(csrf_token, stored)
    THEN Returned(AuthResponse(None, None, None, state, None,
                               <<"mismatched CSRF token">>),
                  << >>, "mismatched", 1)
    ELSE IF ~HasScheme(me)
    THEN Raised(<<"MissingSchema">>, << >>, "passed", 1)
    ELSE IF Len(responses) < 1 THEN Pending
    ELSE
    LET found == _discover_endpoints(responses[1])
        token_url == found.token
        micropub_url == found.micropub
        token_data == [code |-> code, me |-> me,
                       redirect_uri |-> redirect_uri,
                       client_id |-> ClientId, state |-> wrapped_state]
    IN
    IF found.raised # None
    THEN Raised(found.raised, <<Get(me)>>, "passed", 1)
    ELSE IF NoMicropub(token_url, micropub_url)
    THEN Returned(AuthResponse(me, None, None, state, None,
                               <<"no micropub endpoint found.">>),
                  <<Get(me)>>, "passed", 1)
    ELSE IF ~HasScheme(token_url)
    THEN Raised(<<"MissingSchema">>, <<Get(me)>>, "passed", 1)
    ELSE IF Len(responses) < 2 THEN Pending
    ELSE
    LET token_response == responses[2]
        sent == <<Get(me), Post(token_url, token_data)>>
        tdata == parse_qs(token_response.text)
    IN
    IF token_response.status # 200
    THEN Returned(
             AuthResponse(me, None, None, state, None,
                 <<"bad response from token endpoint: ">>
                 \o ResponseRepr(token_response)),
             sent, "passed", 1)
    ELSE IF "access_token" \notin DOMAIN tdata
    THEN Returned(
             AuthResponse(me, None, None, state, None,
                 <<"response from token endpoint missing access_token: ">>
                 \o DictRepr(token_response.text)),
             sent, "passed", 1)
    \* tdata.get('me')[0] and tdata.get('scope')[0] subscript None when the
    \* field is missing.
    ELSE IF DictGet(tdata, "me") = None \/ DictGet(tdata, "scope") = None
    THEN Raised(<<"TypeError">>, sent, "passed", 1)
    ELSE Returned(
             AuthResponse(First(tdata["me"]), micropub_url,
                          First(tdata["access_token"]), state,
                          First(tdata["scope"]), None),
             sent, "passed", 1)

\* A normalisation that prepends the scheme to every identity URL.
normalize_always(me) == HTTP \o me

\* if not me.startswith('http://') and not me.startswith('https://'):
\*     me = 'http://' + me
normalize(me) ==
    IF ~StartsWith(me, HTTP) /\ ~StartsWith(me, HTTPS)
    THEN HTTP \o me ELSE me

(***************************************************************************)
(* MicropubClient._start_indieauth                                         *)
(*   uuid      the value uuid.uuid4().hex gives this call                  *)
(*   responses what the discovery GET is answered                          *)
(* The result carries the redirect: the URL and the query parameters       *)
(* urlencode is given.                                                     *)
(***************************************************************************)
_start_indieauth(me, redirect_url, state, scope, uuid, responses) ==
    LET me1 == normalize(me)
    IN
    IF Len(responses) < 1 THEN Pending
    ELSE
    LET found == _discover_endpoints(responses[1])
        auth_url == AuthUrlOrDefault(found.auth)
        csrf_token == uuid
        auth_params ==
            [me |-> me1, client_id |-> ClientId,
             redirect_uri |-> redirect_url,
             state |-> wrap_state(csrf_token, state)]
            @@ (IF Truthy(scope) THEN [scope |-> scope]
                ELSE [k \in {} |-> None])
    IN
    IF found.raised # None
    THEN Raised(found.raised, <<Get(me1)>>, "none", 0)
    ELSE [outcome |-> "returned", requests |-> <<Get(me1)>>,
          csrf |-> "none", reads |-> 0, written |-> <<csrf_token>>,
          redirect |-> [url |-> auth_url, params |-> auth_params]]

\* scope='read' when the caller gives none.
Omitted == <<"Omitted">>

\* An entry point that forgets the deprecated next_url.
authenticate_state_only(me, state, next_url, uuid, responses) ==
    _start_indieauth(me, RedirectUri("authenticate"), state, None, uuid,
                     responses)

\* MicropubClient.authenticate
authenticate(me, state, next_url, uuid, responses) ==
    _start_indieauth(me, RedirectUri("authenticate"), Or(state, next_url),
                     None, uuid, responses)

\* An entry point without the default scope.
authorize_no_default(me, state, next_url, scope, uuid, responses) ==
    _start_indieauth(me, RedirectUri("authorize"), Or(state, next_url),
                     IF scope = Omitted THEN None ELSE scope,
                     uuid, responses)

\* MicropubClient.authorize
authorize(me, state, next_url, scope, uuid, responses) ==
    _start_indieauth(me, RedirectUri("authorize"), Or(state, next_url),
                     IF scope = Omitted THEN <<"read">> ELSE scope,
                     uuid, responses)

(***************************************************************************)
(* The inputs the model draws.                                             *)
(***************************************************************************)
Sessions == {"v1", "v2"}

\* uuid.uuid4().hex: the n-th value, distinct from every other one and,
\* being hexadecimal, free of '|'.
Uuid4Hex(n) == <<"c", "5", ToString(n)>>

Domain == <<"example.com">>
IdentityUrl == HTTP \o Domain
ProviderMe == HTTPS \o <<"example.com/">>
OtherMe == HTTPS \o <<"other.example/">>

\* authenticate(me, state, next_url) and authorize(..., scope)
MeInputs == {Domain, HTTP \o Domain, HTTPS \o Domain}
\* state and the deprecated next_url: both omitted, an empty state beside a
\* next_url, a state (itself holding a '|') beside a next_url.
AppInputs ==
    { [state |-> None, next_url |-> None],
      [state |-> << >>, next_url |-> <<"/", "n">>],
      [state |-> <<"s", "|", "r">>, next_url |-> <<"/", "n">>] }
ScopeInputs == {Omitted, <<"create">>, << >>}

\* The query parameters of a callback request.
CodeArgs == {None, <<"code">>}
MeArgs == {None, IdentityUrl}
ForgedStates ==
    {None, << >>, <<"x">>, <<"|", "x">>, <<"f", "f", "|", "x">>}
StateArgs == ForgedStates \cup {flows[i].wrapped : i \in 1..Len(flows)}

\* What a provider answers a POST: the status and the form-encoded text.
Texts ==
    { << >>,
      << <<"access_token", <<"abc123">> >>, <<"me", ProviderMe>>,
         <<"scope", <<"create">> >> >>,
      << <<"access_token", <<"abc123">> >> >>,
      << <<"access_token", <<"abc123">> >>, <<"me", ProviderMe>> >>,
      << <<"me", ProviderMe>>, <<"scope", <<"create">> >> >>,
      << <<"access_token", << >> >>, <<"me", ProviderMe>>,
         <<"scope", <<"create">> >> >>,
      << <<"scope", <<"post">> >>, <<"me", << >> >>,
         <<"access_token", <<"abc123">> >>, <<"me", ProviderMe>>,
         <<"access_token", <<"xyz789">> >>, <<"me", OtherMe>>,
         <<"scope", <<"create">> >> >>,
      << <<"error", <<"invalid_grant">> >> >> }

ErrorTexts ==
    { << >>,
      << <<"access_token", <<"abc123">> >>, <<"me", ProviderMe>>,
         <<"scope", <<"create">> >> >>,
      << <<"error", <<"invalid_grant">> >>,
         <<"error_description", <<"expired">> >> >>,
      << <<"error", <<"invalid_grant">> >> >> }

Replies == [status : {200}, text : Texts] \cup [status : {400}, text : ErrorTexts]

(***************************************************************************)
(* The state machine.  session is flask.session['_micropub_csrf_token'] of *)
(* each visitor (None when unset), uuid_count the number of uuid4 values   *)
(* drawn, last the call being served with the responses its requests were *)
(* given.  flows and accepted are history:                                 *)
(* the initiations so far, and per visitor the callback states a resolver  *)
(* has accepted since the visitor's latest initiation; last.replay tells   *)
(* that the callback being served presents one of those again.             *)
(***************************************************************************)
Idle == [op |-> "idle"]

Init ==
    /\ session = [v \in Sessions |-> None]
    /\ uuid_count = 0
    /\ flows = << >>
    /\ accepted = [v \in Sessions |-> {}]
    /\ last = Idle
    /\ codec = [pc |-> "off"]
    /\ discovery = [pc |-> "off"]

\* A slot that keeps the token it holds: only an unset slot is written.
StoreIfUnset(sid, written) ==
    IF written = << >> \/ session[sid] # None THEN session
    ELSE [session EXCEPT ![sid] = written[Len(written)]]

\* One slot shared by all visitors.
StoreShared(sid, written) ==
    IF written = << >> THEN session
    ELSE [v \in Sessions |-> written[Len(written)]]

\* The session slot after a call that wrote `written` to it.
Store(sid, written) ==
    IF written = << >> THEN session
    ELSE [session EXCEPT ![sid] = written[Len(written)]]

\* The effects of an initiation that ended as r.
Started(sid, op, args, responses, r) ==
    /\ last' = [op |-> op, sid |-> sid, args |-> args,
                responses |-> responses] @@ r
    /\ session' = Store(sid, r.written)
    /\ IF r.outcome = "returned"
       THEN /\ uuid_count' = uuid_count + 1
            /\ flows' = Append(flows,
                   [sid |-> sid, state |-> args.state,
                    next_url |-> args.next_url,
                    wrapped |-> r.redirect.params.state])
            /\ accepted' = [accepted EXCEPT ![sid] = {}]
       ELSE UNCHANGED <<uuid_count, flows, accepted>>
    /\ UNCHANGED <<codec, discovery>>

\* A view calls micropub.authenticate(me, state, next_url).
Authenticate ==
    /\ last = Idle
    /\ uuid_count < MaxFlows
    /\ \E sid \in Sessions, me \in MeInputs, app \in AppInputs,
          page \in Pages :
          Started(sid, "authenticate",
                  [me |-> me, state |-> app.state,
                   next_url |-> app.next_url, scope |-> None],
                  <<page>>,
                  authenticate(me, app.state, app.next_url,
                               Uuid4Hex(uuid_count + 1), <<page>>))

\* A view calls micropub.authorize(me, state, next_url, scope).
Authorize ==
    /\ last = Idle
    /\ uuid_count < MaxFlows
    /\ \E sid \in Sessions, me \in MeInputs, app \in AppInputs,
          scope \in ScopeInputs, page \in Pages :
          Started(sid, "authorize",
                  [me |-> me, state |-> app.state,
                   next_url |-> app.next_url, scope |-> scope],
                  <<page>>,
                  authorize(me, app.state, app.next_url, scope,
                            Uuid4Hex(uuid_count + 1), <<page>>))

\* The effects of a callback resolution that ended as r.
Resolved(sid, op, args, responses, r) ==
    /\ last' = [op |-> op, sid |-> sid, args |-> args,
                responses |-> responses,
                replay |-> args.state \in accepted[sid]] @@ r
    /\ session' = Store(sid, r.written)
    /\ accepted' = IF r.csrf = "passed"
                   THEN [accepted EXCEPT ![sid] = @ \cup {args.state}]
                   ELSE accepted
    /\ UNCHANGED <<uuid_count, flows, codec, discovery>>

\* The provider redirects the visitor's browser to the authenticated
\* handler: decorated() runs _handle_authenticate_response.
AuthenticatedCallback ==
    /\ last = Idle
    /\ \E sid \in Sessions, code \in CodeArgs, me \in MeArgs,
          state \in StateArgs :
          LET args == [code |-> code, state |-> state, me |-> me]
              H(responses) ==
                  _handle_authenticate_response(args, session[sid], responses)
          IN  IF H(<< >>).outcome # "pending"
              THEN Resolved(sid, "authenticated", args, << >>, H(<< >>))
              ELSE \E page \in Pages :
                     IF H(<<page>>).outcome # "pending"
                     THEN Resolved(sid, "authenticated", args, <<page>>,
                                   H(<<page>>))
                     ELSE \E reply \in Replies :
                            Resolved(sid, "authenticated", args,
                                     <<page, reply>>, H(<<page, reply>>))

\* The same for the authorized handler and _handle_authorize_response.
AuthorizedCallback ==
    /\ last = Idle
    /\ \E sid \in Sessions, code \in CodeArgs, me \in MeArgs,
          state \in StateArgs :
          LET args == [code |-> code, state |-> state, me |-> me]
              H(responses) ==
                  _handle_authorize_response(args, session[sid], responses)
          IN  IF H(<< >>).outcome # "pending"
              THEN Resolved(sid, "authorized", args, << >>, H(<< >>))
              ELSE \E page \in Pages :
                     IF H(<<page>>).outcome # "pending"
                     THEN Resolved(sid, "authorized", args, <<page>>,
                                   H(<<page>>))
                     ELSE \E reply \in Replies :
                            Resolved(sid, "authorized", args,
                                     <<page, reply>>, H(<<page, reply>>))

\* The request ends: the redirect, or what the decorated view made of the
\* AuthResponse, goes back to the browser.
Respond ==
    /\ last # Idle
    /\ last' = Idle
    /\ UNCHANGED <<session, uuid_count, flows, accepted, codec, discovery>>

Next ==
    \/ Authenticate
    \/ Authorize
    \/ AuthenticatedCallback
    \/ AuthorizedCallback
    \/ Respond

Spec == Init /\ [][Next]_vars

(***************************************************************************)
(* The codec on its own: a token without '|' and an application state are  *)
(* drawn, wrapped as _start_indieauth wraps them and unwrapped as the      *)
(* resolvers unwrap them.                                                  *)
(***************************************************************************)
StrsUpTo(alphabet, n) == UNION {[1..k -> alphabet] : k \in 0..n}

CodecTokens == StrsUpTo({"a", "b"}, MaxTokenLen)
CodecStates == StrsUpTo({"s", "|"}, MaxStateLen)

InitCodec ==
    /\ session = [v \in Sessions |-> None]
    /\ uuid_count = 0
    /\ flows = << >>
    /\ accepted = [v \in Sessions |-> {}]
    /\ last = Idle
    /\ codec \in [pc : {"start"}, token : CodecTokens, state : CodecStates,
                  wrapped : {None}, out : {<<None, None>>}]
    /\ discovery = [pc |-> "off"]

WrapStep ==
    /\ codec.pc = "start"
    /\ codec' = [codec EXCEPT !.pc = "wrapped",
                              !.wrapped = wrap_state(codec.token, codec.state)]
    /\ UNCHANGED <<session, uuid_count, flows, accepted, last, discovery>>

UnwrapStep ==
    /\ codec.pc = "wrapped"
    /\ codec' = [codec EXCEPT !.pc = "done",
                              !.out = unwrap_state(codec.wrapped)]
    /\ UNCHANGED <<session, uuid_count, flows, accepted, last, discovery>>

NextCodec ==
    \/ WrapStep
    \/ UnwrapStep

SpecCodec == InitCodec /\ [][NextCodec]_vars

(***************************************************************************)
(* Discovery on its own: a response of the identity URL is drawn, with     *)
(* any of the three relations in its Link header and up to MaxLinks link   *)
(* elements (of any relation, with one of two hrefs or none) in its body,  *)
(* and _discover_endpoints is applied to it.                               *)
(***************************************************************************)
HeaderSets == {[r \in S |-> AllHeaders[r]] : S \in SUBSET Rels}

LinkElements ==
    {Link(rel, href) : rel \in Rels, href \in {HtmlAuth, HtmlToken, NoAttr}}

DiscoveryPages ==
    [status : {200, 404}, links : HeaderSets,
     html : StrsUpTo(LinkElements, MaxLinks)]

InitDiscovery ==
    /\ session = [v \in Sessions |-> None]
    /\ uuid_count = 0
    /\ flows = << >>
    /\ accepted = [v \in Sessions |-> {}]
    /\ last = Idle
    /\ codec = [pc |-> "off"]
    /\ discovery \in [pc : {"start"}, page : DiscoveryPages]

Discover ==
    /\ discovery.pc = "start"
    /\ discovery' = [pc |-> "done", page |-> discovery.page,
                     out |-> _discover_endpoints(discovery.page)]
    /\ UNCHANGED <<session, uuid_count, flows, accepted, last, codec>>

NextDiscovery == Discover

SpecDiscovery == InitDiscovery /\ [][NextDiscovery]_vars

(***************************************************************************)
(* The claims.                                                             *)
(***************************************************************************)
\* last is a call of one of the two callback resolvers.
IsCallback == last.op \in {"authenticated", "authorized"}

\* ... that returned an AuthResponse, last.resp.
ReturnedCallback == IsCallback /\ last.outcome = "returned"

\* The token segment of a callback state: what precedes its first '|'.
TokenOf(wrapped) ==
    IF wrapped = None \/ ~Contains(wrapped, "|") THEN None
    ELSE SplitFirst(wrapped, "|")[1]

\* A form-encoded text gives `key` a value: a pair with that key and a
\* value that is not blank (a blank one is no value to the form parser).
HasField(text, key) ==
    \E i \in 1..Len(text) : text[i][1] = key /\ text[i][2] # << >>

\* The first such value.
FirstValue(text, key) ==
    LET i == CHOOSE k \in 1..Len(text) :
                 /\ text[k][1] = key /\ text[k][2] # << >>
                 /\ \A j \in 1..(k - 1) :
                        ~(text[j][1] = key /\ text[j][2] # << >>)
    IN  text[i][2]

\* C1: in both resolvers, a callback whose state carries a non-empty token
\* that differs from the token stored in the visitor's session (or the
\* session stores none) returns error 'mismatched CSRF token' with me,
\* access_token, micropub_endpoint and scope absent, whatever code and me
\* it carries.
C1_MismatchedToken ==
    (/\ IsCallback
     /\ Truthy(TokenOf(last.args.state))
     /\ TokenOf(last.args.state) # session[last.sid])
    => /\ last.outcome = "returned"
       /\ last.resp.error = <<"mismatched CSRF token">>
       /\ last.resp.me = None
       /\ last.resp.access_token = None
       /\ last.resp.micropub_endpoint = None
       /\ last.resp.scope = None

\* C1's case: the authorize resolver rejects the state of another flow
\* while the session holds a token, with code and me supplied.
C1_Witness ==
    /\ last.op = "authorized"
    /\ last.csrf = "mismatched"
    /\ session[last.sid] # None
    /\ \E i \in 1..Len(flows) : flows[i].wrapped = last.args.state
    /\ last.args.me = IdentityUrl
    /\ last.args.code # None

\* The provider confirmed the code of the call in last: its POST was
\* answered 200 with a me.
ProviderConfirmed ==
    /\ Len(last.responses) = 2
    /\ last.responses[2].status = 200
    /\ HasField(last.responses[2].text, "me")

\* C2: in every AuthResponse of either resolver, me is present if and only
\* if the provider confirmed the authorization code with a 200 response;
\* the authorize resolver never hands back the callback's own me
\* parameter without that confirmation.
C2_MeIffConfirmed ==
    ReturnedCallback => (last.resp.me # None <=> ProviderConfirmed)

\* C3, as claimed: a callback that presents, in the same session and with
\* no initiation in between, a state a resolver has already accepted does
\* not pass the CSRF check again.
C3_ConsumedOnce ==
    (IsCallback /\ last.replay) => last.csrf # "passed"

\* C3, as the code has it: the stored token stays until the next
\* initiation in the session overwrites it, so such a callback passes the
\* CSRF check again.
C3_ReplayPasses ==
    (IsCallback /\ last.replay) => last.csrf = "passed"

\* C3's case: an accepted state presented a second time, and accepted.
C3_Witness ==
    /\ IsCallback
    /\ last.replay
    /\ last.csrf = "passed"
    /\ session[last.sid] = TokenOf(last.args.state)

\* C4: a callback resolution whose requests are all answered ends by
\* returning an AuthResponse, never by raising: whatever the query
\* parameters, the discovered document and the provider's body are.  (A
\* MissingSchema of the transport, raised for a me that is no URL, is left
\* out of the statement.)
C4_NeverRaises ==
    IsCallback =>
        \/ last.outcome = "returned"
        \/ last.exception = <<"MissingSchema">>

\* A callback state that yields no token: absent, empty, without '|', or
\* with nothing before its first '|'.
NoToken(wrapped) ==
    \/ wrapped = None
    \/ wrapped = << >>
    \/ ~Contains(wrapped, "|")
    \/ wrapped[1] = "|"

\* C5: in both resolvers, a callback whose state yields no token returns
\* error 'no CSRF token in response' with me and access_token absent and
\* state the application state after the first '|' (absent when there is
\* no '|'); it does not read the session slot and sends no request.
C5_NoToken ==
    (IsCallback /\ NoToken(last.args.state))
    => /\ last.outcome = "returned"
       /\ last.resp.error = <<"no CSRF token in response">>
       /\ last.resp.me = None
       /\ last.resp.access_token = None
       /\ last.resp.state =
              (IF last.args.state # None /\ Contains(last.args.state, "|")
               THEN Tail(last.args.state) ELSE None)
       /\ last.reads = 0
       /\ last.requests = << >>

\* C5's case: a state with an empty token segment, whose application state
\* is still handed back.
C5_Witness ==
    /\ IsCallback
    /\ last.args.state = <<"|", "x">>
    /\ last.resp.state = <<"x">>
    /\ last.resp.error = <<"no CSRF token in response">>

\* C6: unwrapping token + "|" + state at the first '|' gives back exactly
\* (token, state), for every token without '|' and every state string,
\* the empty one and those holding '|' included.
C6_RoundTrip ==
    codec.pc = "done" => codec.out = <<codec.token, codec.state>>

\* C6's case: a round trip of a state that itself holds '|'.
C6_Witness ==
    /\ codec.pc = "done"
    /\ codec.token # << >>
    /\ Contains(codec.state, "|")
    /\ codec.out = <<codec.token, codec.state>>

\* The callback in last passed the CSRF check with the unmodified state of
\* the i-th flow.
ResolvesFlow(i) ==
    /\ ReturnedCallback
    /\ last.csrf = "passed"
    /\ last.args.state = flows[i].wrapped

\* C7, as claimed: every AuthResponse of a flow initiated with application
\* state s (possibly omitted) whose state comes back unmodified has state
\* equal to s.
C7_StateIsOriginal ==
    \A i \in 1..Len(flows) :
        ResolvesFlow(i) => last.resp.state = flows[i].state

\* C7, as the code has it: the state handed back is s when s is given and
\* not empty, else the deprecated next_url when that is given and not
\* empty, else the empty string (never absent); on success and on every
\* error path after the CSRF check.
C7_StateIsEffective ==
    \A i \in 1..Len(flows) :
        ResolvesFlow(i) =>
            last.resp.state = Or(Or(flows[i].state, flows[i].next_url), << >>)

\* C7's case: the successful resolution of a flow started with an empty
\* state beside a next_url, which hands back the next_url.
C7_Witness ==
    \E i \in 1..Len(flows) :
        /\ ResolvesFlow(i)
        /\ flows[i].state = << >>
        /\ last.resp.state = flows[i].next_url
        /\ last.resp.error = None

\* What discovery gave the callback in last (its first response).
Found == _discover_endpoints(last.responses[1])

\* The authorize resolver passed the CSRF check and discovery came back
\* without a token endpoint or without a micropub endpoint.
AuthorizeWithoutEndpoints ==
    /\ last.op = "authorized"
    /\ last.csrf = "passed"
    /\ Len(last.responses) >= 1
    /\ Found.raised = None
    /\ (~Truthy(Found.token) \/ ~Truthy(Found.micropub))

\* What C8 says of such a call, for a given error text.
PartialSuccess(error) ==
    /\ last.outcome = "returned"
    /\ last.resp.me = last.args.me
    /\ last.resp.access_token = None
    /\ last.resp.scope = None
    /\ last.resp.micropub_endpoint = None
    /\ last.resp.error = error
    /\ \A i \in 1..Len(last.requests) : last.requests[i].method # "POST"

\* C8, as claimed: the error is "no micropub endpoint found".
C8_ErrorAsClaimed ==
    AuthorizeWithoutEndpoints
    => PartialSuccess(<<"no micropub endpoint found">>)

\* C8, as the code has it: after a passed CSRF check, discovery without a
\* token endpoint or without a micropub endpoint gives me set to the
\* callback's me, access_token, scope and micropub_endpoint absent, error
\* "no micropub endpoint found." (with its full stop), and no POST.
C8_NoMicropubEndpoint ==
    AuthorizeWithoutEndpoints
    => PartialSuccess(<<"no micropub endpoint found.">>)

\* C8's case: only one of the two endpoints is missing.
C8_Witness ==
    /\ AuthorizeWithoutEndpoints
    /\ Truthy(Found.token)
    /\ last.resp.me = IdentityUrl
    /\ last.resp.error = <<"no micropub endpoint found.">>

\* The authorize resolver passed the CSRF check, discovered both endpoints
\* and had its POST answered 200 with access_token, me and scope.
AuthorizeAnswered ==
    /\ last.op = "authorized"
    /\ last.csrf = "passed"
    /\ Len(last.responses) = 2
    /\ Found.raised = None
    /\ Truthy(Found.token) /\ Truthy(Found.micropub)
    /\ last.responses[2].status = 200
    /\ HasField(last.responses[2].text, "access_token")
    /\ HasField(last.responses[2].text, "me")
    /\ HasField(last.responses[2].text, "scope")

\* C9: such a call returns access_token, me and scope equal to the first
\* value the body gives each field (me is the provider's, not the
\* callback's), micropub_endpoint equal to the discovered one, and no
\* error.
C9_TokenExchange ==
    AuthorizeAnswered
    => /\ last.outcome = "returned"
       /\ last.resp.access_token =
              FirstValue(last.responses[2].text, "access_token")
       /\ last.resp.me = FirstValue(last.responses[2].text, "me")
       /\ last.resp.scope = FirstValue(last.responses[2].text, "scope")
       /\ last.resp.micropub_endpoint = Found.micropub
       /\ last.resp.error = None

\* C9's case: a body that repeats its fields, and a provider me that is
\* not the callback's.
C9_Witness ==
    /\ AuthorizeAnswered
    /\ last.resp.access_token = <<"abc123">>
    /\ last.resp.me = ProviderMe
    /\ last.args.me # ProviderMe
    /\ last.resp.scope = <<"post">>
    /\ last.resp.micropub_endpoint = HtmlMicropub

\* The token endpoint answered the call in last.
TokenEndpointAnswered ==
    /\ last.op = "authorized"
    /\ Len(last.responses) = 2

\* C10: in every AuthResponse, access_token is populated only if the token
\* endpoint answered this resolution 200 with an access_token, and then
\* error is absent and me and micropub_endpoint are populated; an answer
\* that is not 200 or lacks access_token gives an error and no
\* access_token; error is absent only on a fully successful resolution.
C10_AccessToken ==
    ReturnedCallback =>
        /\ last.resp.access_token # None
           => /\ TokenEndpointAnswered
              /\ last.responses[2].status = 200
              /\ HasField(last.responses[2].text, "access_token")
              /\ last.resp.error = None
              /\ Truthy(last.resp.me)
              /\ Truthy(last.resp.micropub_endpoint)
        /\ (/\ TokenEndpointAnswered
            /\ \/ last.responses[2].status # 200
               \/ ~HasField(last.responses[2].text, "access_token"))
           => Truthy(last.resp.error) /\ last.resp.access_token = None
        /\ last.resp.error = None
           => /\ Truthy(last.resp.me)
              /\ last.op = "authorized"
                 => /\ Truthy(last.resp.access_token)
                    /\ Truthy(last.resp.micropub_endpoint)

\* C10's case: a 200 answer whose access_token is blank, reported as an
\* error.
C10_Witness ==
    /\ ReturnedCallback
    /\ TokenEndpointAnswered
    /\ last.responses[2].status = 200
    /\ \E i \in 1..Len(last.responses[2].text) :
           last.responses[2].text[i] = <<"access_token", << >> >>
    /\ Truthy(last.resp.error)
    /\ last.resp.access_token = None

\* The authenticate resolver passed the CSRF check, and its validation POST
\* was answered.
AuthenticateAnswered ==
    /\ last.op = "authenticated"
    /\ last.csrf = "passed"
    /\ Len(last.responses) = 2

\* The error or error_description of the body, "Unknown Error" without it.
ErrorPart(text, key) ==
    IF HasField(text, key) THEN FirstValue(text, key)
    ELSE <<"Unknown Error">>

\* What C11 says of such a call, for a given text of the missing-me error.
AuthenticateOutcome(missing_me) ==
    LET response == last.responses[2]
    IN  /\ last.outcome = "returned"
        /\ last.resp.access_token = None
        /\ last.resp.scope = None
        /\ last.resp.micropub_endpoint = None
        /\ IF response.status # 200
           THEN /\ last.resp.me = None
                /\ last.resp.error =
                       <<"authorization failed. ">>
                       \o ErrorPart(response.text, "error") \o <<": ">>
                       \o ErrorPart(response.text, "error_description")
           ELSE IF ~HasField(response.text, "me")
           THEN /\ last.resp.me = None
                /\ last.resp.error = missing_me
           ELSE /\ last.resp.me = FirstValue(response.text, "me")
                /\ last.resp.error = None

\* C11, as claimed: the error of a 200 answer without me is
\* "missing me in response".
C11_MissingMeAsClaimed ==
    AuthenticateAnswered => AuthenticateOutcome(<<"missing me in response">>)

\* C11, as the code has it: after a passed CSRF check the validation POST's
\* answer decides the outcome of the authenticate resolver.  A status other
\* than 200 gives error 'authorization failed. E: D', E and D the first
\* error and error_description of the body, each "Unknown Error" without
\* one, and no me; a 200 whose body has no me gives error
\* 'missing "me" in response' (me in double quotes) and no me; otherwise me
\* is the first me of the body and there is no error.  access_token, scope
\* and micropub_endpoint are absent in all three.
C11_AuthenticateOutcome ==
    AuthenticateAnswered
    => AuthenticateOutcome(<<"missing \"me\" in response">>)

\* C11's case: a 400 answer that names an error but no description.
C11_Witness ==
    /\ AuthenticateAnswered
    /\ last.responses[2].status = 400
    /\ last.resp.error =
           <<"authorization failed. ", "invalid_grant", ": ", "Unknown Error">>
    /\ last.resp.me = None

\* What C12 says discovery gives for one relation of a 200 response: the
\* header's URL when the header has the relation, else the href of the
\* first link element with that rel, else nothing.
Discovered(page, rel) ==
    IF rel \in DOMAIN page.links THEN page.links[rel]
    ELSE IF \E i \in 1..Len(page.html) : page.html[i].rel = rel
    THEN LET i == CHOOSE k \in 1..Len(page.html) :
                      /\ page.html[k].rel = rel
                      /\ \A j \in 1..(k - 1) : page.html[j].rel # rel
         IN  page.html[i].href
    ELSE None

\* Every link element the lookup comes to has an href.
HrefsPresent(page) == \A rel \in Rels : Discovered(page, rel) # NoAttr

\* C12: discovery gives nothing for all three relations after a response
\* that is not 200; after a 200 it gives, for each relation on its own, the
\* Link header's URL when the header has the relation, else the href of the
\* first link element with that rel, else nothing.  (Stated for documents
\* whose link elements, where the lookup comes to them, have an href.)
C12_Discovery ==
    (discovery.pc = "done" /\ HrefsPresent(discovery.page))
    => LET page == discovery.page
           out == discovery.out
       IN  /\ out.raised = None
           /\ IF page.status # 200
              THEN out.auth = None /\ out.token = None /\ out.micropub = None
              ELSE /\ out.auth = Discovered(page, "authorization_endpoint")
                   /\ out.token = Discovered(page, "token_endpoint")
                   /\ out.micropub = Discovered(page, "micropub")

\* C12's case: the header and the body both give the micropub relation
\* and the header wins, while the token endpoint, missing from the header
\* that has the two others, is taken from the body.
C12_Witness ==
    /\ discovery.pc = "done"
    /\ discovery.page.status = 200
    /\ DOMAIN discovery.page.links = {"authorization_endpoint", "micropub"}
    /\ discovery.page.html =
           << Link("micropub", HtmlAuth), Link("token_endpoint", HtmlToken) >>
    /\ discovery.out.micropub = HeaderMicropub
    /\ discovery.out.token = HtmlToken
    /\ discovery.out.auth = HeaderAuth

\* The authorization endpoint the call in last has to use according to
\* C13: the discovered one, the default when discovery gave none.
EffectiveAuthEndpoint ==
    IF Found.auth = None THEN HTTPS \o <<"indieauth.com/auth">>
    ELSE Found.auth

\* C13: an initiation redirects to, and the authenticate resolver sends
\* its validation POST to, the authorization endpoint discovery gave for
\* the identity URL, and to https://indieauth.com/auth when discovery gave
\* none (the fetch failed or the relation was not found).
C13_DefaultAuthEndpoint ==
    /\ (/\ last.op \in {"authenticate", "authorize"}
        /\ last.outcome = "returned")
       => last.redirect.url = EffectiveAuthEndpoint
    /\ (last.op = "authenticated" /\ Len(last.responses) = 2)
       => /\ Len(last.requests) = 2
          /\ last.requests[2].method = "POST"
          /\ last.requests[2].url = EffectiveAuthEndpoint

\* C13's case: the fetch of the identity URL fails with a 404 whose Link
\* header names an authorization endpoint, and the code goes to the
\* default.
C13_Witness ==
    /\ last.op = "authenticated"
    /\ Len(last.responses) = 2
    /\ last.responses[1].status = 404
    /\ "authorization_endpoint" \in DOMAIN last.responses[1].links
    /\ last.requests[2].url = DEFAULT_AUTH_URL

\* last is an initiation: a call of authenticate or authorize.
IsInitiation == last.op \in {"authenticate", "authorize"}

\* The identity URL C14 expects an initiation to work with.
Normalized(me) ==
    IF StartsWith(me, HTTP) \/ StartsWith(me, HTTPS) THEN me
    ELSE HTTP \o me

\* C14: an initiation prepends 'http://' once to an identity URL that starts
\* with neither 'http://' nor 'https://' and leaves any other unchanged;
\* normalising the result again changes nothing; and the normalised URL is
\* the one discovery fetches and the me parameter of the redirect.
C14_Normalization ==
    IsInitiation =>
        LET me == Normalized(last.args.me)
        IN  /\ normalize(last.args.me) = me
            /\ normalize(me) = me
            /\ last.requests = <<Get(me)>>
            /\ last.outcome = "returned" => last.redirect.params.me = me

\* C14's case: a bare domain, fetched and passed on with one 'http://'.
C14_Witness ==
    /\ IsInitiation
    /\ last.args.me = Domain
    /\ last.outcome = "returned"
    /\ last.requests[1].url = HTTP \o Domain
    /\ last.redirect.params.me = HTTP \o Domain

\* The i-th flow is the latest one initiated in its session.
LatestOfSession(i) ==
    \A j \in (i + 1)..Len(flows) : flows[j].sid # flows[i].sid

\* C15: every initiation draws a token no earlier flow had and leaves it in
\* the session slot; a callback that carries, in the session of the flow,
\* the wrapped state of a flow passes the CSRF check when the flow is the
\* session's latest, and is rejected as 'mismatched CSRF token' when the
\* session has initiated another flow since.
C15_OneFlowPerSession ==
    /\ (IsInitiation /\ last.outcome = "returned")
       => /\ session[last.sid] = TokenOf(flows[Len(flows)].wrapped)
          /\ \A i \in 1..(Len(flows) - 1) :
                 TokenOf(flows[i].wrapped) # session[last.sid]
    /\ \A i \in 1..Len(flows) :
           (/\ IsCallback
            /\ last.args.state = flows[i].wrapped
            /\ last.sid = flows[i].sid)
           => IF LatestOfSession(i)
              THEN last.csrf = "passed"
              ELSE /\ last.csrf = "mismatched"
                   /\ last.resp.error = <<"mismatched CSRF token">>

\* C15's case: two flows of one session, and a callback with the state of
\* the first, rejected.
C15_Witness ==
    /\ Len(flows) = 2
    /\ flows[1].sid = flows[2].sid
    /\ IsCallback
    /\ last.sid = flows[1].sid
    /\ last.args.state = flows[1].wrapped
    /\ last.csrf = "mismatched"

\* The callback in last arrives in a session other than the one the state
\* it carries was issued to.
CrossSession(i) ==
    /\ IsCallback
    /\ last.args.state = flows[i].wrapped
    /\ last.sid # flows[i].sid

\* Such a callback is rejected by the CSRF check.
CrossSessionRejected ==
    \A i \in 1..Len(flows) :
        CrossSession(i)
        => /\ last.csrf = "mismatched"
           /\ last.resp.error = <<"mismatched CSRF token">>
           /\ session[last.sid] # TokenOf(last.args.state)

\* C16: a call served in one session (an initiation or a callback) leaves
\* the stored token of every other session as it was, and a callback that
\* arrives in one session with the wrapped state issued to another is
\* rejected by the CSRF check, the tokens of the two sessions being
\* different.
C16_SessionsIndependent ==
    [][/\ \A v \in Sessions :
              session'[v] # session[v] => (last' # Idle /\ last'.sid = v)
       /\ CrossSessionRejected']_vars

\* C16's case: both visitors have a flow of their own, and the state of
\* one comes back in the session of the other.
C16_Witness ==
    /\ Len(flows) = 2
    /\ flows[1].sid # flows[2].sid
    /\ CrossSession(1)
    /\ session[last.sid] = TokenOf(flows[2].wrapped)
    /\ last.csrf = "mismatched"

\* C17: the session slot of the CSRF token is written by initiations only.
\* A callback resolution leaves the session as it found it and writes
\* nothing to the slot, on every path (missing token, mismatch, failed
\* discovery, provider error, success), and reads the slot at most once.
C17_SlotWrittenByInitiation ==
    [][/\ IsCallback' => /\ session' = session
                         /\ last'.written = << >>
                         /\ last'.reads <= 1
       /\ session' # session => IsInitiation']_vars

\* C17's case: a successful resolution, after which the session still
\* holds the token it accepted.
C17_Witness ==
    /\ ReturnedCallback
    /\ last.resp.error = None
    /\ last.reads = 1
    /\ last.written = << >>
    /\ session[last.sid] = TokenOf(last.args.state)

\* The requests of the call in last, by method.
CountOf(method) ==
    Cardinality({i \in 1..Len(last.requests) :
                    last.requests[i].method = method})

\* C18: a call sends at most two requests, one after the other and each
\* once.  An initiation sends one GET, to the identity URL, and no POST.  A
\* resolution sends at most one GET, to the callback's me, then at most
\* one POST; it sends no POST without the GET before it; every request is
\* answered once, and an answer that is not 200 makes the call send
\* nothing again.
C18_AtMostTwoRequests ==
    /\ IsInitiation
       => /\ Len(last.requests) = 1
          /\ last.requests[1].method = "GET"
    /\ IsCallback
       => /\ Len(last.requests) <= 2
          /\ CountOf("GET") <= 1
          /\ CountOf("POST") <= 1
          /\ Len(last.requests) >= 1
             => last.requests[1] = Get(last.args.me)
          /\ Len(last.requests) = 2 => last.requests[2].method = "POST"
    /\ (IsInitiation \/ IsCallback)
       => Len(last.responses) = Len(last.requests)

\* C18's case: the fetch is answered 404 and the validation POST 400, and
\* the resolver has sent just these two.
C18_Witness ==
    /\ last.op = "authenticated"
    /\ Len(last.requests) = 2
    /\ last.responses[1].status = 404
    /\ last.responses[2].status = 400
    /\ last.requests[1].method = "GET"
    /\ last.requests[2].method = "POST"

\* C19: a resolver sends a request (the GET of the callback's me, the POST
\* that carries the code) only after it found the callback's token not
\* empty and equal to the token stored in the session.  With a missing or
\* mismatched token it sends nothing, so the code reaches no endpoint, and
\* returns an error with me, access_token, micropub_endpoint and scope
\* absent.
C19_NoRequestBeforeCsrf ==
    IsCallback
    => /\ last.requests # << >>
          => /\ Truthy(TokenOf(last.args.state))
             /\ TokenOf(last.args.state) = session[last.sid]
             /\ last.csrf = "passed"
       /\ last.csrf # "passed"
          => /\ last.requests = << >>
             /\ last.outcome = "returned"
             /\ Truthy(last.resp.error)
             /\ last.resp.me = None
             /\ last.resp.access_token = None
             /\ last.resp.micropub_endpoint = None
             /\ last.resp.scope = None

\* C19's case: a forged state with a code and a me, in a session that has
\* a flow of its own under way; nothing is sent.
C19_Witness ==
    /\ last.op = "authenticated"
    /\ last.args.state = <<"f", "f", "|", "x">>
    /\ last.args.code # None
    /\ last.args.me = IdentityUrl
    /\ session[last.sid] # None
    /\ last.csrf = "mismatched"
    /\ last.requests = << >>

\* last is an initiation that returned its redirect.
Redirected == IsInitiation /\ last.outcome = "returned"

\* The scope authorize works with: the caller's, "read" when omitted.
CallerScope ==
    IF last.args.scope = Omitted THEN <<"read">> ELSE last.args.scope

\* What C20 says of every redirect: it carries me, client_id, redirect_uri
\* and state, the state being the token just stored in the session, '|',
\* and the application state the entry point passed on; and the redirect
\* of authenticate carries no scope.
RedirectCarries ==
    LET params == last.redirect.params
    IN  /\ {"me", "client_id", "redirect_uri", "state"} \subseteq DOMAIN params
        /\ params.client_id = ClientId
        /\ params.redirect_uri = RedirectUri(last.op)
        /\ session[last.sid] # None
        /\ params.state =
               session[last.sid] \o <<"|">>
               \o Or(Or(last.args.state, last.args.next_url), << >>)
        /\ last.op = "authenticate" => "scope" \notin DOMAIN params

\* C20, as claimed: the redirect of authorize always carries a scope, the
\* caller's or "read".
C20_ScopeAlways ==
    Redirected
    => /\ RedirectCarries
       /\ last.op = "authorize"
          => /\ "scope" \in DOMAIN last.redirect.params
             /\ last.redirect.params.scope = CallerScope

\* C20, as the code has it: the redirect of authorize carries a scope, the
\* caller's or "read" when the caller omits it, unless the caller's scope
\* is empty, and then it carries none; the redirect of authenticate never
\* carries one; both carry me, client_id, redirect_uri and state.
C20_RedirectParams ==
    Redirected
    => /\ RedirectCarries
       /\ last.op = "authorize"
          => IF CallerScope = << >>
             THEN "scope" \notin DOMAIN last.redirect.params
             ELSE /\ "scope" \in DOMAIN last.redirect.params
                  /\ last.redirect.params.scope = CallerScope

\* C20's case: authorize called with an empty scope, whose redirect has
\* the four other parameters and no scope.
C20_Witness ==
    /\ Redirected
    /\ last.op = "authorize"
    /\ last.args.scope = << >>
    /\ DOMAIN last.redirect.params =
           {"me", "client_id", "redirect_uri", "state"}
    /\ TokenOf(last.redirect.params.state) = session[last.sid]

====
